---- MODULE Spec2Model ----
(***************************************************************************)
(* yardd_disk: the buffer pool (PageManager over DiskManager and           *)
(* UsageTracker) and the slotted index page (IndexPageMut / IndexPageRead).*)
(*                                                                         *)
(* SpecPool explores the buffer pool: any interleaving of add_empty_pages, *)
(* next_free_page, find_page and of a client that keeps, writes through    *)
(* and drops the handles it was given.  SpecLocks adds a client that keeps *)
(* the lock guards of its frames across pool calls.                        *)
(* SpecAppend / SpecFill explore one slotted page byte for byte, SpecFrame *)
(* the header codec, init_page and as_index_node over written frames,      *)
(* SpecTracker the usage tracker and SpecAlloc DiskManager::allocate_pages.*)
(***************************************************************************)
EXTENDS Integers, Sequences, FiniteSets, TLC

VARIABLES
    \* ---- PageManager (page_manager.rs:15-21)
    pages,          \* BTreeMap<PageId, PagePointer>: cached id -> frame
    last_used,      \* UsageTracker.last_used: the queue's items in store order, each with its time
    empty_pages,    \* Vec<PageId>
    max_num_pages,  \* usize
    \* ---- DiskManager (disk_manager.rs:17-21)
    page_map,       \* HashMap<PageId, DiskEntry>
    next_page_id,   \* PageId
    files,          \* the files of the base directory: file -> page offset -> bytes
    \* ---- the clients and the clock
    handles,        \* id -> number of clones of the frame's Arc held outside the pool
    locked,         \* the ids of the frames whose RwLock a client holds a guard of
    now,            \* SystemTime::now(), as a logical clock
    \* ---- bookkeeping of the last pool call (not program state)
    written,        \* id -> the bytes a client last wrote through a handle (NoByte: never)
    handed_out,     \* the ids next_free_page has returned a handle to
    outcome,        \* what the last pool call did
    \* ---- one slotted page (page.rs:10-14) and the last call made on it
    page,
    call

poolVars == <<pages, last_used, empty_pages, max_num_pages, page_map, next_page_id,
              files, handles, locked, now, written, handed_out, outcome>>
pageVars == <<page, call>>
vars == <<pages, last_used, empty_pages, max_num_pages, page_map, next_page_id,
          files, handles, locked, now, written, handed_out, outcome, page, call>>

----------------------------------------------------------------------------
(* Bounds of the exploration *)

MaxFrames == 2      \* max_num_pages ranges over 0..MaxFrames
MaxPageIds == 3     \* the disk manager hands out at most this many ids
MaxAlloc == 2       \* n_pages of one add_empty_pages call ranges over 1..MaxAlloc
MaxHandles == 1     \* clones of one frame a client holds at a time
MaxFill == 1        \* a client fills a frame with one of the bytes 1..MaxFill
MaxTime == 5        \* the clock stops the exploration here

PAGE_SIZE_BYTES == 1024

FileNames == {"a.db", "b.db"}
PageIds == 0 .. (MaxPageIds - 1)
Offsets == {(i * PAGE_SIZE_BYTES) % 65536 : i \in 0 .. (MaxAlloc - 1)}
NoPage == -1
NoByte == -1

----------------------------------------------------------------------------
(* Sequences *)

Last(s) == s[Len(s)]
Front(s) == SubSeq(s, 1, Len(s) - 1)
----------------------------------------------------------------------------
(* UsageTracker: a PriorityQueue<PageId, InverseSystemTime>.  The queue      *)
(* keeps its (item, priority) pairs in an indexed store: push appends a new *)
(* item, change_priority leaves the item where it is, remove swaps the last *)
(* item into the removed one's place.  iter() walks the store in that      *)
(* order; peek() returns the item of greatest priority, which under the    *)
(* inverted comparison is the one with the least time.                     *)

Items(q) == {q[i].item : i \in 1 .. Len(q)}

IndexOf(q, id) == CHOOSE i \in 1 .. Len(q) : q[i].item = id

\* a comparison that is not inverted: the later time is the greater
NaturalGreater(a, b) == a > b

\* InverseSystemTime::partial_cmp: a is greater than b iff a's time is less
InverseGreater(a, b) == a < b

\* PriorityQueue::change_priority(&page_id, now), a no-op for an absent item
touch(q, id, t) ==
    IF id \in Items(q)
    THEN [q EXCEPT ![IndexOf(q, id)] = [item |-> id, time |-> t]]
    ELSE q

\* PriorityQueue::push(page_id, now): a present item only changes priority
insert(q, id, t) ==
    IF id \in Items(q) THEN touch(q, id, t)
    ELSE Append(q, [item |-> id, time |-> t])

\* a removal that forgets nothing (the tracker keeps the evicted id)
RemoveKeeps(q, id) == q

\* PriorityQueue::remove(&page_id): swap_remove in the store
remove(q, id) ==
    IF id \notin Items(q) THEN q
    ELSE LET i == IndexOf(q, id) IN
         IF i = Len(q) THEN Front(q)
         ELSE [Front(q) EXCEPT ![i] = Last(q)]

\* PriorityQueue::peek(): the item of greatest priority
peek(q) ==
    IF q = <<>> THEN NoPage
    ELSE LET i == CHOOSE i \in 1 .. Len(q) :
                    \A j \in 1 .. Len(q) : ~InverseGreater(q[j].time, q[i].time)
         IN q[i].item

----------------------------------------------------------------------------
(* DiskManager *)

ZeroFile == [o \in Offsets |-> 0]

\* allocate_pages: DiskEntry.offset of the i-th page of the call
EntryOffset(i) == (i * PAGE_SIZE_BYTES) % 65536

\* allocate_pages(n, file): the page map after the call
AllocatedMap(n, file) ==
    [id \in 0 .. (next_page_id + n - 1) |->
        IF id < next_page_id THEN page_map[id]
        ELSE [file_path |-> file, offset |-> EntryOffset(id - next_page_id)]]

\* save_page(page_id, data) on the files fs
SavePage(fs, id, data) ==
    [fs EXCEPT ![page_map[id].file_path][page_map[id].offset] = data]

\* load_page(page_id) from the files fs
DiskLoad(fs, id) == fs[page_map[id].file_path][page_map[id].offset]

----------------------------------------------------------------------------
(* PageManager *)

Cached == DOMAIN pages

\* a count that sees the pool's own reference only
CountsPoolOnly(id) == 1

\* Arc::strong_count(page): the pool's own reference and the clients' clones
StrongCount(id) == 1 + handles[id]

\* a scan that takes every frame for unreferenced
EvictableAlways(id) == TRUE

\* evict_next_page: the test of one frame of the scan
Evictable(id) == StrongCount(id) = 1

\* evict_next_page, the scan: the first item of last_used.iter() from position i
\* on whose frame is unreferenced; NoPage when there is none
RECURSIVE ScanFrom(_)
ScanFrom(i) ==
    IF i > Len(last_used) THEN NoPage
    ELSE IF Evictable(last_used[i].item) THEN last_used[i].item
    ELSE ScanFrom(i + 1)

\* a scan that takes the first tracked frame, referenced or not
FirstTracked == IF last_used = << >> THEN NoPage ELSE last_used[1].item

page_to_evict == ScanFrom(1)

\* a pool that never finds itself full
NeverFull == FALSE

\* load_page: pages.len() == max_num_pages
CacheFull == Cardinality(Cached) = max_num_pages

Without(f, id) == [k \in (DOMAIN f) \ {id} |-> f[k]]
With(f, id, v) == [k \in (DOMAIN f) \cup {id} |-> IF k = id THEN v ELSE f[k]]

Frame(id, data) == [page_id |-> id, data |-> data, is_dirty |-> FALSE]

\* the unpinned tracked id of least time: the victim a least-recently-used
\* policy takes (NoPage when every frame is referenced)
OldestUnpinned ==
    LET c == {i \in 1 .. Len(last_used) : Evictable(last_used[i].item)} IN
    IF c = {} THEN NoPage
    ELSE last_used[CHOOSE i \in c : \A j \in c : last_used[i].time <= last_used[j].time].item

\* load_page(page_id) on a miss, as the pool state it leaves:
\*   AllPagesPinned  the cache is full and the scan found no frame: nothing changed
\*   Blocked         the victim's lock is held: page.write() never returns, with
\*                   the victim already out of `pages` and of the tracker
\*   UnknownPageId   the disk manager does not map the id: the victim is gone
\*   Loaded          the frame is cached and tracked
load_page(id) ==
    LET victim == IF CacheFull THEN page_to_evict ELSE NoPage
        evicts == victim # NoPage
        pagesE == IF evicts THEN Without(pages, victim) ELSE pages
        usedE  == IF evicts THEN remove(last_used, victim) ELSE last_used
        filesE == IF evicts THEN SavePage(files, victim, pages[victim].data) ELSE files
        lru    == IF CacheFull THEN OldestUnpinned ELSE NoPage
    IN  IF CacheFull /\ ~evicts
        THEN [status |-> "AllPagesPinned", pages |-> pages, last_used |-> last_used,
              files |-> files, evicted |-> NoPage, lru |-> lru, ticks |-> 0]
        ELSE IF evicts /\ victim \in locked
        THEN [status |-> "Blocked", pages |-> pagesE, last_used |-> usedE,
              files |-> files, evicted |-> victim, lru |-> lru, ticks |-> 0]
        ELSE IF id \notin DOMAIN page_map
        THEN [status |-> "UnknownPageId", pages |-> pagesE, last_used |-> usedE,
              files |-> filesE, evicted |-> victim, lru |-> lru, ticks |-> 0]
        ELSE [status |-> "Loaded",
              pages |-> With(pagesE, id, Frame(id, DiskLoad(filesE, id))),
              last_used |-> insert(usedE, id, now),
              files |-> filesE, evicted |-> victim, lru |-> lru, ticks |-> 1]

\* a lookup that goes to the disk whether or not the page is cached
AlwaysLoads(id) == load_page(id)

\* find_page(page_id) as the pool state it leaves
find_page(id) ==
    IF id \in Cached
    THEN [status |-> "Hit", pages |-> pages, last_used |-> touch(last_used, id, now),
          files |-> files, evicted |-> NoPage, lru |-> NoPage, ticks |-> 1]
    ELSE load_page(id)

Succeeded(r) == r.status \in {"Hit", "Loaded"}

\* the client keeps the handle it was given, or drops it at once
Given(r, id, keep) ==
    IF Succeeded(r) /\ keep /\ handles[id] < MaxHandles
    THEN [handles EXCEPT ![id] = @ + 1]
    ELSE handles

Outcome(op, id, r) ==
    [op |-> op, id |-> id, status |-> r.status, evicted |-> r.evicted, lru |-> r.lru]

\* pub fn find_page(&mut self, page_id)
FindPage(id, keep) ==
    /\ now < MaxTime
    /\ LET r == find_page(id) IN
        /\ pages' = r.pages
        /\ last_used' = r.last_used
        /\ files' = r.files
        /\ now' = now + r.ticks
        /\ handles' = Given(r, id, keep)
        /\ outcome' = Outcome("find_page", id, r)
    /\ UNCHANGED <<empty_pages, max_num_pages, page_map, next_page_id, written,
                   locked, handed_out>>
    /\ UNCHANGED pageVars

\* pub fn next_free_page(&mut self)
NextFreePage(keep) ==
    /\ now < MaxTime
    /\ IF Len(empty_pages) = 0
       THEN /\ outcome' = [op |-> "next_free_page", id |-> NoPage, status |-> "NoFreePages",
                           evicted |-> NoPage, lru |-> NoPage]
            /\ UNCHANGED <<pages, last_used, files, now, handles, empty_pages, handed_out>>
       ELSE LET id == Last(empty_pages)
                r == find_page(id)
            IN  /\ empty_pages' = Front(empty_pages)
                /\ pages' = r.pages
                /\ last_used' = r.last_used
                /\ files' = r.files
                /\ now' = now + r.ticks
                /\ handles' = Given(r, id, keep)
                /\ outcome' = Outcome("next_free_page", id, r)
                /\ handed_out' = IF Succeeded(r) THEN handed_out \cup {id} ELSE handed_out
    /\ UNCHANGED <<max_num_pages, page_map, next_page_id, written, locked>>
    /\ UNCHANGED pageVars

\* add_empty_pages: the ids of the call that get a frame (i < len)
BufferSpots == max_num_pages - Cardinality(Cached)

\* a count of frames that ignores the free cache slots
TakesSecond(a, b) == b

Min(a, b) == IF a < b THEN a ELSE b

\* add_free_page for the ids first .. first+k-1, in order
RECURSIVE AddFreePages(_, _, _, _)
AddFreePages(ps, q, id, k) ==
    IF k = 0 THEN [pages |-> ps, last_used |-> q]
    ELSE AddFreePages(With(ps, id, Frame(id, 0)),
                      insert(q, id, now + (id - next_page_id)), id + 1, k - 1)

\* pub fn add_empty_pages(&mut self, file, n_pages)
AddEmptyPages(file, n) ==
    /\ next_page_id + n <= MaxPageIds
    /\ now + n <= MaxTime
    /\ LET len == Min(BufferSpots, n)
           r == AddFreePages(pages, last_used, next_page_id, len)
       IN  /\ pages' = r.pages
           /\ last_used' = r.last_used
           /\ now' = now + len
           /\ outcome' = [op |-> "add_empty_pages", id |-> next_page_id, status |-> "Ok",
                          evicted |-> NoPage, lru |-> NoPage]
    /\ page_map' = AllocatedMap(n, file)
    /\ next_page_id' = next_page_id + n
    /\ files' = [files EXCEPT ![file] = ZeroFile]
    /\ empty_pages' = empty_pages \o [i \in 1 .. n |-> next_page_id + i - 1]
    /\ UNCHANGED <<max_num_pages, handles, written, locked, handed_out>>
    /\ UNCHANGED pageVars

\* a client fills the frame it holds a handle to: page.write().data.fill(b)
WritePage(id, b) ==
    /\ handles[id] > 0
    /\ id \in Cached
    /\ pages' = [pages EXCEPT ![id].data = b]
    /\ written' = [written EXCEPT ![id] = b]
    /\ outcome' = [op |-> "write", id |-> id, status |-> "Ok", evicted |-> NoPage, lru |-> NoPage]
    /\ UNCHANGED <<last_used, empty_pages, max_num_pages, page_map, next_page_id, files,
                   handles, now, locked, handed_out>>
    /\ UNCHANGED pageVars

\* a client drops a handle; a lock guard borrows the handle it was taken
\* through, which therefore outlives it
DropHandle(id) ==
    /\ handles[id] > 0
    /\ id \in locked => handles[id] > 1
    /\ handles' = [handles EXCEPT ![id] = @ - 1]
    /\ outcome' = [op |-> "drop", id |-> id, status |-> "Ok", evicted |-> NoPage, lru |-> NoPage]
    /\ UNCHANGED <<pages, last_used, empty_pages, max_num_pages, page_map, next_page_id,
                   files, now, written, locked, handed_out>>
    /\ UNCHANGED pageVars

\* a client takes the lock of the frame it holds a handle to and keeps the
\* guard: let page = handle.read() / handle.write()
LockPage(id) ==
    /\ handles[id] > 0
    /\ id \notin locked
    /\ locked' = locked \cup {id}
    /\ outcome' = [op |-> "lock", id |-> id, status |-> "Ok", evicted |-> NoPage, lru |-> NoPage]
    /\ UNCHANGED <<pages, last_used, empty_pages, max_num_pages, page_map, next_page_id,
                   files, handles, now, written, handed_out>>
    /\ UNCHANGED pageVars

\* the guard goes out of scope
UnlockPage(id) ==
    /\ id \in locked
    /\ locked' = locked \ {id}
    /\ outcome' = [op |-> "unlock", id |-> id, status |-> "Ok", evicted |-> NoPage, lru |-> NoPage]
    /\ UNCHANGED <<pages, last_used, empty_pages, max_num_pages, page_map, next_page_id,
                   files, handles, now, written, handed_out>>
    /\ UNCHANGED pageVars

----------------------------------------------------------------------------
(* Byte codec (serialization_helpers.rs).  A buffer is a function from     *)
(* 0 .. len-1 to bytes.  A u16 is a number; a u32 is two and a u64 four    *)
(* 16-bit limbs, most significant first, so that every value stays within  *)
(* the checker's integers; the limbs compare as the numbers do.            *)

U64(n) == <<0, 0, 0, n>>

read_u16(v, start) == v[start] * 256 + v[start + 1]

read_u32(v, start) == <<read_u16(v, start), read_u16(v, start + 2)>>

read_u64(v, start) ==
    <<read_u16(v, start), read_u16(v, start + 2), read_u16(v, start + 4), read_u16(v, start + 6)>>

\* the two bytes of a u16, least significant first
LeBytes16(n) == <<n % 256, (n \div 256) % 256>>

\* the four bytes of a u32 with its halves exchanged
SwappedBytes32(n) == <<(n[2] \div 256) % 256, n[2] % 256, (n[1] \div 256) % 256, n[1] % 256>>

\* u16::to_be_bytes
BeBytes16(n) == <<(n \div 256) % 256, n % 256>>

\* u32::to_be_bytes, u64::to_be_bytes
BeBytes32(n) == BeBytes16(n[1]) \o BeBytes16(n[2])
BeBytes64(n) == BeBytes16(n[1]) \o BeBytes16(n[2]) \o BeBytes16(n[3]) \o BeBytes16(n[4])

\* v[start + i] = bytes[i] for each byte from the i-th on (i counted from 1)
RECURSIVE PutBytes(_, _, _, _)
PutBytes(v, start, bytes, i) ==
    IF i > Len(bytes) THEN v
    ELSE PutBytes([v EXCEPT ![start + i - 1] = bytes[i]], start, bytes, i + 1)

\* write_bytes(v, start, bytes): write_all into v[start..]; what does not fit is dropped
write_bytes(v, start, bytes) ==
    PutBytes(v, start, SubSeq(bytes, 1, Len(bytes)), 1)

write_u16(v, start, n) == PutBytes(v, start, BeBytes16(n), 1)
write_u32(v, start, n) == PutBytes(v, start, BeBytes32(n), 1)
write_u64(v, start, n) == PutBytes(v, start, BeBytes64(n), 1)

\* `x as u16`
AsU16(x) == x % 65536

\* u64 <= u64, on limbs
RECURSIVE LimbsLeq(_, _, _)
LimbsLeq(a, b, i) ==
    IF i > Len(a) THEN TRUE
    ELSE IF a[i] < b[i] THEN TRUE
    ELSE IF a[i] > b[i] THEN FALSE
    ELSE LimbsLeq(a, b, i + 1)

KeyLeq(a, b) == LimbsLeq(a, b, 1)

----------------------------------------------------------------------------
(* Page (page.rs) *)

PAGE_MAGIC_NUMBER == <<64490, 33465>>     \* 0xFBEA82B9

IndexNode == 1
IndexLeaf == 2
DataPage == 3

MAGIC_NUMBER_START == 0
PAGE_TYPE_START == 4
LOG_SEQUENCE_NUMBER_START == 5
PARENT_PAGE_ID_START == 9
PAGE_ID_START == 17
HEADER_SIZE == 25

SLOTS_HEADER_START == HEADER_SIZE
SLOTS_OCCUPIED_SLOTS_START == SLOTS_HEADER_START
SLOTS_FRAGMENTED_SLOTS_START == SLOTS_OCCUPIED_SLOTS_START + 2
SLOTS_NEXT_EMPTY_OFFSET_START == SLOTS_FRAGMENTED_SLOTS_START + 2
SLOTS_HEADER_SIZE == 2 * 3
SLOTS_START == SLOTS_HEADER_START + SLOTS_HEADER_SIZE

page_size(p) == p.size

\* Page::write_header
write_header(p, header) ==
    LET d1 == write_u32(p.data, MAGIC_NUMBER_START, header.magic_number)
        d2 == [d1 EXCEPT ![PAGE_TYPE_START] = header.page_type]
        d3 == write_u32(d2, LOG_SEQUENCE_NUMBER_START, header.log_sequence_number)
        d4 == write_u64(d3, PARENT_PAGE_ID_START, header.parent_page_id)
        d5 == write_u64(d4, PAGE_ID_START, header.page_id)
    IN  [p EXCEPT !.is_dirty = TRUE, !.page_id = header.page_id, !.data = d5]

read_page_id(p) == read_u64(p.data, PAGE_ID_START)

\* Page::read_page_type: the tag byte (a tag outside 1..3 panics)
read_page_type(p) == p.data[PAGE_TYPE_START]

\* Page::read_header
read_header(p) ==
    [magic_number |-> read_u32(p.data, MAGIC_NUMBER_START),
     page_type |-> read_page_type(p),
     log_sequence_number |-> read_u32(p.data, LOG_SEQUENCE_NUMBER_START),
     parent_page_id |-> read_u64(p.data, PARENT_PAGE_ID_START),
     page_id |-> read_page_id(p)]

\* Page::as_index_node: how the call ends.  The type tag is the only thing
\* looked at: a tag outside 1..3 panics in read_page_type, a DataPage in
\* as_index_node; IndexPage::read_existing_page wraps the frame as it is.
as_index_node(p) ==
    IF read_page_type(p) \notin {IndexNode, IndexLeaf, DataPage} THEN "UnknownPageType"
    ELSE IF read_page_type(p) \notin {IndexNode, IndexLeaf} THEN "NotAnIndexPage"
    ELSE "Ok"

\* DbColumn for u64
key_len(key) == 8
to_bytes(key) == BeBytes64(key)
from_bytes(v, start) == read_u64(v, start)

----------------------------------------------------------------------------
(* Slotted index page (disk_btree.rs) *)

NoSlot == -1                   \* Option<SlotIndex>::None
TUPLE_HEADER_SIZE == 8 + 2     \* size_of::<PageId>() + size_of::<SlotIndex>()

read_n_slots(p) == read_u16(p.data, SLOTS_OCCUPIED_SLOTS_START)
read_fragmented_slots(p) == read_u16(p.data, SLOTS_FRAGMENTED_SLOTS_START)
read_next_empty_offset(p) == read_u16(p.data, SLOTS_NEXT_EMPTY_OFFSET_START)

read_slots_header(p) ==
    [occupied_slots |-> read_n_slots(p),
     fragmented_slots |-> read_fragmented_slots(p),
     next_empty_offset |-> read_next_empty_offset(p)]

slots_end(p) == SLOTS_START + (read_n_slots(p) + read_fragmented_slots(p)) * 2

get_entry_offset(p, slot_index) == read_u16(p.data, SLOTS_START + 2 * slot_index)

get_fragmented_slot_offset(p, slot_index) ==
    read_u16(p.data, SLOTS_START + 2 * read_n_slots(p) + 2 * slot_index)

get_occupied_slots(p) == [i \in 1 .. read_n_slots(p) |-> get_entry_offset(p, i - 1)]

get_fragmented_slots(p) ==
    [i \in 1 .. read_fragmented_slots(p) |-> get_fragmented_slot_offset(p, i - 1)]

\* the bytes read_key_node reads lie in the buffer (a read outside it panics)
EntryInBounds(p, slot_index) ==
    /\ SLOTS_START + 2 * slot_index + 1 < p.size
    /\ get_entry_offset(p, slot_index) + TUPLE_HEADER_SIZE + 8 <= p.size

\* IndexPageRead::read_key_node
read_key_node(p, slot_index) ==
    LET offset == get_entry_offset(p, slot_index) IN
    [key |-> from_bytes(p.data, offset + 8 + 2),
     page_id |-> read_u64(p.data, offset),
     slot_index |-> IF read_page_type(p) = IndexLeaf
                    THEN read_u16(p.data, offset + 8) ELSE NoSlot]

\* PageIterator: the entries of slots 0 .. n_slots-1, in slot order
iter(p) == [i \in 1 .. read_n_slots(p) |-> read_key_node(p, i - 1)]

IterInBounds(p) == \A i \in 1 .. read_n_slots(p) : EntryInBounds(p, i - 1)

\* IndexPageMut::write_slots_header
write_slots_header(p, h) ==
    LET d1 == write_u16(p.data, SLOTS_OCCUPIED_SLOTS_START, h.occupied_slots)
        d2 == write_u16(d1, SLOTS_FRAGMENTED_SLOTS_START, h.fragmented_slots)
        d3 == write_u16(d2, SLOTS_NEXT_EMPTY_OFFSET_START, h.next_empty_offset)
    IN  [p EXCEPT !.data = d3]

\* an initialisation that writes the page header and leaves the slot header
InitHeaderOnly(page_type, parent_page_id, p) ==
    write_header(p, [magic_number |-> PAGE_MAGIC_NUMBER,
                     page_type |-> page_type,
                     log_sequence_number |-> <<0, 0>>,
                     parent_page_id |-> parent_page_id,
                     page_id |-> p.page_id])

\* IndexPageMut::init_page
init_page(page_type, parent_page_id, p) ==
    LET header == [magic_number |-> PAGE_MAGIC_NUMBER,
                   page_type |-> page_type,
                   log_sequence_number |-> <<0, 0>>,
                   parent_page_id |-> parent_page_id,
                   page_id |-> p.page_id]
        q == write_header(p, header)
    IN  write_slots_header(q, [occupied_slots |-> 0, fragmented_slots |-> 0,
                               next_empty_offset |-> AsU16(page_size(q) - 1)])

\* the writes of a sequence of u16 offsets, slot by slot from directory position at
RECURSIVE WriteSlots(_, _, _, _)
WriteSlots(d, offsets, at, i) ==
    IF i > Len(offsets) THEN d
    ELSE WriteSlots(write_u16(d, SLOTS_START + 2 * (at + i - 1), AsU16(offsets[i])),
                    offsets, at, i + 1)

\* IndexPageMut::update_slots
update_slots(p, slots, slots_fragmented, next_empty_offset) ==
    LET header == [occupied_slots |-> AsU16(Len(slots)),
                   fragmented_slots |-> AsU16(Len(slots_fragmented)),
                   next_empty_offset |-> AsU16(next_empty_offset)]
        q  == write_slots_header([p EXCEPT !.is_dirty = TRUE], header)
        d1 == WriteSlots(q.data, slots, 0, 1)
        d2 == WriteSlots(d1, slots_fragmented, header.occupied_slots, 1)
    IN  [q EXCEPT !.data = d2]

\* Vec::insert(index, x), index counted from 0
VecInsert(s, index, x) ==
    SubSeq(s, 1, index) \o <<x>> \o SubSeq(s, index + 1, Len(s))

\* IndexPageMut::insert_slot
insert_slot(p, insert_index, offset_start) ==
    update_slots(p, VecInsert(get_occupied_slots(p), insert_index, offset_start),
                 get_fragmented_slots(p), offset_start - 1)

\* IndexPageMut::write_entry
write_entry(p, new_entry, offset) ==
    LET d1 == write_u64(p.data, offset, new_entry.page_id)
        d2 == write_u16(d1, offset + 8,
                        IF new_entry.slot_index = NoSlot THEN 0 ELSE new_entry.slot_index)
        d3 == write_bytes(d2, offset + 8 + 2, to_bytes(new_entry.key))
    IN  [p EXCEPT !.data = d3]

\* append_key: entry_size_bytes
entry_size_bytes(new_entry) == key_len(new_entry.key) + TUPLE_HEADER_SIZE

\* append_key: the index of the first entry of iter() with new_entry.key <= entry.key,
\* occupied_slots when there is none (counted from 0)
insert_index(p, new_entry) ==
    LET es == iter(p)
        hits == {i \in 1 .. Len(es) : KeyLeq(new_entry.key, es[i].key)}
    IN  IF hits = {} THEN read_n_slots(p)
        ELSE (CHOOSE i \in hits : \A j \in hits : i <= j) - 1

\* IndexPageMut::append_key: the page it leaves and how it ended.
\*   Panic     next_empty_offset - entry_size_bytes is negative (the subtraction
\*             overflows), or the scan reads an entry outside the buffer
\*   PageFull  panic!("No more space left for page!")
\* The dirty flag is set before anything can fail.
append_key(p, new_entry) ==
    LET q == [p EXCEPT !.is_dirty = TRUE]
        next_empty_offset == read_slots_header(q).next_empty_offset
        offset_start == next_empty_offset - entry_size_bytes(new_entry)
    IN  IF next_empty_offset < entry_size_bytes(new_entry)
        THEN [status |-> "Panic", page |-> q]
        ELSE IF offset_start < slots_end(q)
        THEN [status |-> "PageFull", page |-> q]
        ELSE IF ~IterInBounds(q)
        THEN [status |-> "Panic", page |-> q]
        ELSE [status |-> "Ok",
              page |-> write_entry(insert_slot(q, insert_index(q, new_entry), offset_start),
                                   new_entry, offset_start)]

----------------------------------------------------------------------------
(* One frame and the calls made on it.  An IndexPageMut exists only as the *)
(* result of init_page, so every append_key and update_slots follows one;  *)
(* the exploration initialises a frame once.                               *)

MaxKey == 1         \* keys are the u64 values 0..MaxKey

\* Page { data: vec![0; size], .. }: the size of the frames explored in full,
\* and of the frames filled to the brim (page.rs:4 makes the pool's 1024)
PageSizes == {64, 128}
FillSizes == {64, 128, 256, 512}

PageTypes == {IndexNode, IndexLeaf, DataPage}
ParentIds == {0, 123}
ChildIds == {14, 15}
SlotIndexes == {NoSlot, 289}

KeyEntries ==
    [key : {U64(k) : k \in 0 .. MaxKey},
     page_id : {U64(c) : c \in ChildIds},
     slot_index : SlotIndexes]

\* the entries of a bulk load: one child, no slot index
FillEntries == {e \in KeyEntries : e.page_id = U64(14) /\ e.slot_index = NoSlot}

NoEntry == [key |-> U64(0), page_id |-> U64(0), slot_index |-> NoSlot]
NoHeader == [occupied_slots |-> 0, fragmented_slots |-> 0, next_empty_offset |-> 0]
NoEntries == << >>

\* Page { page_id, data: vec![0; size], is_dirty: false }
ZeroedPage(size) ==
    [size |-> size, page_id |-> U64(0), is_dirty |-> FALSE, data |-> [k \in 0 .. (size - 1) |-> 0]]

Initialised == call.op # "none"

PoolIdle ==
    /\ max_num_pages = 0
    /\ pages = << >>
    /\ last_used = << >>
    /\ empty_pages = << >>
    /\ page_map = << >>
    /\ next_page_id = 0
    /\ files = [f \in FileNames |-> ZeroFile]
    /\ handles = [id \in PageIds |-> 0]
    /\ locked = {}
    /\ handed_out = {}
    /\ now = 0
    /\ written = [id \in PageIds |-> NoByte]
    /\ outcome = [op |-> "new", id |-> NoPage, status |-> "Ok", evicted |-> NoPage, lru |-> NoPage]

FreshCall ==
    [op |-> "none", status |-> "Ok", entry |-> NoEntry, need |-> 0,
     before |-> NoHeader, entries |-> NoEntries, arg |-> NoHeader]

InitAppend ==
    /\ PoolIdle
    /\ \E size \in PageSizes : page = ZeroedPage(size)
    /\ call = FreshCall

InitFill ==
    /\ PoolIdle
    /\ \E size \in FillSizes : page = ZeroedPage(size)
    /\ call = FreshCall

\* IndexPageMut::init_page(page_type, parent_page_id, &mut page)
InitPageCall(page_type, parent) ==
    /\ ~Initialised
    /\ page' = init_page(page_type, U64(parent), page)
    /\ call' = [FreshCall EXCEPT !.op = "init_page"]
    /\ UNCHANGED poolVars

\* index_page.append_key(new_entry).  `call` keeps what the call was given and
\* what the page held before it: the entry (of a call that succeeded), the
\* bytes it needed, the slot header and the entries of iter().
AppendKey(new_entry) ==
    /\ Initialised
    /\ LET r == append_key(page, new_entry) IN
        /\ page' = r.page
        /\ call' = [op |-> "append_key", status |-> r.status,
                    entry |-> IF r.status = "Ok" THEN new_entry ELSE NoEntry,
                    need |-> entry_size_bytes(new_entry),
                    before |-> read_slots_header(page),
                    entries |-> IF r.status = "Ok" THEN iter(page) ELSE NoEntries,
                    arg |-> NoHeader]
    /\ UNCHANGED poolVars

\* a bulk load appends its entries in key order
FillAppend(new_entry) ==
    /\ call.op = "append_key" /\ call.status = "Ok" => KeyLeq(call.entry.key, new_entry.key)
    /\ AppendKey(new_entry)

NextAppend ==
    \/ \E t \in PageTypes, parent \in ParentIds : InitPageCall(t, parent)
    \/ \E e \in KeyEntries : AppendKey(e)

NextFill ==
    \/ \E t \in PageTypes, parent \in ParentIds : InitPageCall(t, parent)
    \/ \E e \in FillEntries : FillAppend(e)

\* every order of appends on small frames
SpecAppend == InitAppend /\ [][NextAppend]_vars

\* appends in key order until the frame is full, on frames up to 512 bytes
SpecFill == InitFill /\ [][NextFill]_vars

----------------------------------------------------------------------------
(* One frame and the header calls made on it: write_header and              *)
(* write_slots_header on any frame, written or not (the slotted page's     *)
(* own tests build an IndexPageMut on a frame no init_page has touched).   *)

FrameSizes == {64, 1024}

Magics == {PAGE_MAGIC_NUMBER, <<1, 515>>}

\* log sequence number, parent page id and page id of the headers written:
\* zeroes, and the values of test_read_write_header
HeaderFields ==
    {[log_sequence_number |-> <<0, 0>>, parent_page_id |-> U64(0), page_id |-> U64(0)],
     [log_sequence_number |-> <<2810, 64254>>, parent_page_id |-> <<0, 0, 254, 56506>>,
      page_id |-> <<0, 0, 171, 52719>>]}

PageHeaders ==
    {[magic_number |-> m, page_type |-> t,
      log_sequence_number |-> f.log_sequence_number,
      parent_page_id |-> f.parent_page_id,
      page_id |-> f.page_id] : m \in Magics, t \in PageTypes, f \in HeaderFields}

\* the slot headers written: zeroes, one occupied slot, the values of
\* read_write_slots_header (0xFAFA, 0xAFAF, 0xEAFA) and the last byte of a
\* 1024-byte frame
SlotHeaders ==
    [occupied_slots : {0, 1, 64250}, fragmented_slots : {0, 44975},
     next_empty_offset : {0, 1023, 60154}]

InitFrame ==
    /\ PoolIdle
    /\ \E size \in FrameSizes : page = ZeroedPage(size)
    /\ call = FreshCall

\* page.write_header(header)
WriteHeaderCall(header) ==
    /\ page' = write_header(page, header)
    /\ call' = [FreshCall EXCEPT !.op = "write_header", !.arg = header]
    /\ UNCHANGED poolVars

\* index_page.write_slots_header(&slots_header)
WriteSlotsHeaderCall(slots_header) ==
    /\ page' = write_slots_header(page, slots_header)
    /\ call' = [FreshCall EXCEPT !.op = "write_slots_header", !.arg = slots_header]
    /\ UNCHANGED poolVars

\* IndexPageMut::init_page(page_type, parent_page_id, &mut page) on a frame
\* that may have been written before
InitPageOver(page_type, parent) ==
    /\ page' = init_page(page_type, U64(parent), page)
    /\ call' = [FreshCall EXCEPT !.op = "init_page",
                                 !.arg = [page_type |-> page_type, parent_page_id |-> U64(parent)]]
    /\ UNCHANGED poolVars

\* page.as_index_node::<u64>() followed by iter() on the IndexPage it returns;
\* `call` keeps how as_index_node ended (Panic when iter() then reads outside
\* the buffer) and the entries iter() yielded
AsIndexNodeCall ==
    /\ call.op # "as_index_node"
    /\ LET status == as_index_node(page) IN
         call' = [FreshCall EXCEPT
                    !.op = "as_index_node",
                    !.status = IF status = "Ok" /\ ~IterInBounds(page) THEN "Panic" ELSE status,
                    !.entries = IF status = "Ok" /\ IterInBounds(page) THEN iter(page)
                                ELSE NoEntries]
    /\ UNCHANGED page
    /\ UNCHANGED poolVars

NextFrame ==
    \/ \E header \in PageHeaders : WriteHeaderCall(header)
    \/ \E slots_header \in SlotHeaders : WriteSlotsHeaderCall(slots_header)
    \/ \E t \in PageTypes, parent \in ParentIds : InitPageOver(t, parent)
    \/ AsIndexNodeCall

SpecFrame == InitFrame /\ [][NextFrame]_vars

----------------------------------------------------------------------------
(* The usage tracker alone: inserts and touches of page ids, one tick of   *)
(* the clock each.                                                         *)

MaxTouches == 6     \* the clock of the tracker's exploration stops here

TrackerCall(op, id) ==
    [op |-> op, id |-> id, status |-> "Ok", evicted |-> NoPage, lru |-> NoPage]

\* usage_tracker.insert(page_id)
TrackerInsert(id) ==
    /\ now < MaxTouches
    /\ last_used' = insert(last_used, id, now)
    /\ now' = now + 1
    /\ outcome' = TrackerCall("insert", id)
    /\ UNCHANGED <<pages, empty_pages, max_num_pages, page_map, next_page_id, files,
                   handles, written, locked, handed_out>>
    /\ UNCHANGED pageVars

\* usage_tracker.touch(page_id)
TrackerTouch(id) ==
    /\ now < MaxTouches
    /\ last_used' = touch(last_used, id, now)
    /\ now' = now + 1
    /\ outcome' = TrackerCall("touch", id)
    /\ UNCHANGED <<pages, empty_pages, max_num_pages, page_map, next_page_id, files,
                   handles, written, locked, handed_out>>
    /\ UNCHANGED pageVars

\* UsageTracker::new()
InitTracker ==
    /\ PoolIdle
    /\ page = ZeroedPage(0)
    /\ call = FreshCall

NextTracker ==
    \/ \E id \in PageIds : TrackerInsert(id)
    \/ \E id \in PageIds : TrackerTouch(id)

SpecTracker == InitTracker /\ [][NextTracker]_vars

----------------------------------------------------------------------------
(* The disk manager alone: allocate_pages of up to MaxCallPages pages.     *)
(* The offset of the i-th page is computed in 16 bits; where the product   *)
(* does not fit, a build with overflow checks panics and one without       *)
(* wraps, and the exploration takes both.                                  *)

MaxCallPages == 65  \* n of one allocate_pages call ranges over 1..MaxCallPages

\* allocate_pages: i as u16 * PAGE_SIZE_BYTES does not fit in a u16
Overflows(i) == i * PAGE_SIZE_BYTES >= 65536

\* the pages of a call of n that are mapped before the multiplication panics
MappedBeforePanic(n) == Cardinality({i \in 0 .. (n - 1) : ~Overflows(i)})

\* disk_manager.allocate_pages(n, file)
AllocatePages(file, n, overflow_checks) ==
    /\ next_page_id < MaxAlloc
    /\ LET panics == overflow_checks /\ \E i \in 0 .. (n - 1) : Overflows(i)
           mapped == IF panics THEN MappedBeforePanic(n) ELSE n
       IN  /\ page_map' = AllocatedMap(mapped, file)
           /\ next_page_id' = next_page_id + mapped
           /\ outcome' = [op |-> "allocate_pages", id |-> next_page_id,
                          status |-> IF panics THEN "Overflow" ELSE "Ok",
                          evicted |-> NoPage, lru |-> NoPage]
    /\ files' = [files EXCEPT ![file] = ZeroFile]
    /\ UNCHANGED <<pages, last_used, empty_pages, max_num_pages, handles, now, written,
                   locked, handed_out>>
    /\ UNCHANGED pageVars

\* DiskManager::new(base_directory)
InitAlloc ==
    /\ PoolIdle
    /\ page = ZeroedPage(0)
    /\ call = FreshCall

NextAlloc ==
    \E file \in FileNames, n \in 1 .. MaxCallPages, overflow_checks \in BOOLEAN :
        AllocatePages(file, n, overflow_checks)

SpecAlloc == InitAlloc /\ [][NextAlloc]_vars

----------------------------------------------------------------------------
(* The buffer pool *)

NoPageState == ZeroedPage(0)

\* PageManager::new(max_num_pages, base_directory)
InitPool ==
    /\ max_num_pages \in 0 .. MaxFrames
    /\ pages = << >>
    /\ last_used = << >>
    /\ empty_pages = << >>
    /\ page_map = << >>
    /\ next_page_id = 0
    /\ files = [f \in FileNames |-> ZeroFile]
    /\ handles = [id \in PageIds |-> 0]
    /\ locked = {}
    /\ handed_out = {}
    /\ now = 0
    /\ written = [id \in PageIds |-> NoByte]
    /\ outcome = [op |-> "new", id |-> NoPage, status |-> "Ok", evicted |-> NoPage, lru |-> NoPage]
    /\ page = NoPageState
    /\ call = FreshCall

NextPool ==
    \/ \E f \in FileNames, n \in 1 .. MaxAlloc : AddEmptyPages(f, n)
    \/ \E keep \in BOOLEAN : NextFreePage(keep)
    \/ \E id \in PageIds, keep \in BOOLEAN : FindPage(id, keep)
    \/ \E id \in PageIds, b \in 1 .. MaxFill : WritePage(id, b)
    \/ \E id \in PageIds : DropHandle(id)

SpecPool == InitPool /\ [][NextPool]_vars

\* the pool with a client that keeps lock guards across its pool calls
NextLocks ==
    \/ NextPool
    \/ \E id \in PageIds : LockPage(id)
    \/ \E id \in PageIds : UnlockPage(id)

SpecLocks == InitPool /\ [][NextLocks]_vars

----------------------------------------------------------------------------
(* The buffer pool's claims, under SpecPool *)

Evicted == outcome.evicted # NoPage

\* C1 Pin safety: a page a client holds a handle to is cached and tracked, no
\* pool call (nor any other step) takes it out of `pages` or of the usage
\* tracker while the handle is held, and the frame an eviction takes is one
\* no client holds a handle to.
C1_PinSafety ==
    [][ /\ \A id \in PageIds :
              handles[id] > 0 =>
                  /\ id \in DOMAIN pages /\ id \in Items(last_used)
                  /\ id \in DOMAIN pages' /\ id \in Items(last_used')
                  /\ outcome'.evicted # id
        /\ (outcome'.evicted # NoPage /\ outcome' # outcome) =>
              handles[outcome'.evicted] = 0 ]_vars

\* the scan met a referenced frame first, passed it over and evicted another
C1_Witness ==
    /\ Evicted
    /\ outcome.status = "Loaded"
    /\ Len(last_used) = 2
    /\ handles[last_used[1].item] > 0
    /\ last_used[1].item # outcome.id

\* C2 Capacity: `pages` never holds more than max_num_pages frames.
C2_Capacity == Cardinality(DOMAIN pages) <= max_num_pages

\* a miss on a full cache was served: one frame out, one in, the cache full again
C2_Witness ==
    /\ outcome.status = "Loaded"
    /\ Evicted
    /\ Cardinality(DOMAIN pages) = max_num_pages

\* C3 Cache/tracker agreement: the ids of `pages` are the ids of the usage
\* tracker, each tracked once, and the id a call evicted is in neither.
C3_Agreement ==
    /\ DOMAIN pages = Items(last_used)
    /\ Len(last_used) = Cardinality(DOMAIN pages)
    /\ (Evicted /\ outcome.op \in {"find_page", "next_free_page"}) =>
          outcome.evicted \notin (DOMAIN pages \cup Items(last_used))

\* an eviction took an id out of a cache that holds other frames
C3_Witness ==
    /\ Evicted
    /\ outcome.evicted \notin DOMAIN pages
    /\ Cardinality(DOMAIN pages) = 2

\* C4 LRU victim selection: the frame a miss on a full cache evicts is the
\* unreferenced cached page whose last insert/touch is the oldest.
C4_EvictsLeastRecentlyUsed ==
    (Evicted /\ outcome.status = "Loaded") => outcome.evicted = outcome.lru

\* C5 Persistence across eviction: the frame the pool holds (and hands out)
\* for a page carries the bytes a client last wrote into that page.
C5_Persistence ==
    \A id \in DOMAIN pages : written[id] # NoByte => pages[id].data = written[id]

\* C11 Cache unchanged on failed load: a find_page that fails because the disk
\* manager does not map the id leaves `pages` and the usage tracker as they
\* were before the call.
C11_FailedLoadKeepsCache ==
    [][outcome'.status = "UnknownPageId" =>
          /\ pages' = pages
          /\ last_used' = last_used]_vars

\* the step is a find_page of an uncached id on a full cache whose frames are
\* all referenced by a client
AllPinnedMiss ==
    /\ outcome'.op = "find_page"
    /\ outcome'.id \notin Cached
    /\ CacheFull
    /\ \A id \in Cached : handles[id] > 0

\* C13 All pages pinned: find_page of an uncached id on a full cache whose
\* frames all have an external handle fails with AllPagesPinned and changes
\* neither `pages`, nor the usage tracker, nor the files.
C13_AllPagesPinned ==
    [][AllPinnedMiss =>
          /\ outcome'.status = "AllPagesPinned"
          /\ outcome'.evicted = NoPage
          /\ pages' = pages
          /\ last_used' = last_used
          /\ files' = files]_vars

\* a find_page failed on a cache of two frames, both referenced
C13_Witness ==
    /\ outcome.op = "find_page"
    /\ outcome.status = "AllPagesPinned"
    /\ Cardinality(Cached) = 2
    /\ \A id \in Cached : handles[id] > 0

\* the ids the step's add_empty_pages allocated, and those of them it cached
NewIds == next_page_id .. (next_page_id' - 1)
NewFrames == (DOMAIN pages') \ (DOMAIN pages)

\* min(c, n) for the c free cache slots and the n ids of the step
FreeSlots == max_num_pages - Cardinality(DOMAIN pages)
ExpectedFrames ==
    IF FreeSlots < Cardinality(NewIds) THEN FreeSlots ELSE Cardinality(NewIds)

CachedLookup == outcome'.op = "find_page" /\ outcome'.id \in Cached

\* C17 At most one miss: a successful find_page(id) leaves id cached, the
\* client's use of its handles keeps it cached, and a find_page(id) made
\* while id is cached loads nothing and evicts nothing: it touches id and
\* hands out the frame that is already there.
C17_SecondLookupHits ==
    [][ /\ (outcome'.op = "find_page" /\ Succeeded(outcome')) => outcome'.id \in DOMAIN pages'
        /\ outcome'.op \in {"write", "drop"} =>
              (DOMAIN pages' = DOMAIN pages /\ last_used' = last_used /\ files' = files)
        /\ CachedLookup =>
              /\ outcome'.status = "Hit"
              /\ outcome'.evicted = NoPage
              /\ pages' = pages
              /\ files' = files
              /\ Len(last_used') = Len(last_used)
              /\ \A i \in 1 .. Len(last_used) :
                    last_used'[i] = IF last_used[i].item = outcome'.id
                                    THEN [item |-> outcome'.id, time |-> now]
                                    ELSE last_used[i] ]_vars

\* a find_page hit on a full cache while another mapped page is not cached
C17_Witness ==
    /\ outcome.op = "find_page"
    /\ outcome.status = "Hit"
    /\ CacheFull
    /\ \E id \in DOMAIN page_map : id \notin Cached
    /\ last_used[IndexOf(last_used, outcome.id)].time = now - 1

----------------------------------------------------------------------------
(* The slotted page's claims, under SpecFill and SpecAppend *)

Appended == call.op = "append_key" /\ call.status = "Ok"

Sorted(es) == \A i \in 1 .. (Len(es) - 1) : KeyLeq(es[i].key, es[i + 1].key)

SameEntry(x, e) == x.key = e.key /\ x.page_id = e.page_id

Count(es, e) == Cardinality({i \in 1 .. Len(es) : SameEntry(es[i], e)})

\* C6 Sorted directory: after init_page and any successful appends, iter()
\* yields `occupied` entries whose keys never decrease.
C6_SortedDirectory ==
    Initialised =>
        /\ Len(iter(page)) = read_n_slots(page)
        /\ Sorted(iter(page))

\* C7 Effect of append_key: a successful append adds one occupied slot, and an
\* entry that iter() did not yield before is yielded exactly once after.
C7_AppendAddsEntry ==
    Appended =>
        /\ read_n_slots(page) = call.before.occupied_slots + 1
        /\ Count(call.entries, call.entry) = 0 => Count(iter(page), call.entry) = 1

\* C8 Heap accounting: a successful append lowers next_empty_offset by exactly
\* key.len() + 10, the size of the record.
C8_HeapAccounting ==
    Appended =>
        read_next_empty_offset(page) = call.before.next_empty_offset - call.need

\* C9 Directory/heap separation: after a successful append the slot directory,
\* the new slot included, ends at or below next_empty_offset + 1, which is
\* within the page.
C9_Separation ==
    Appended =>
        /\ HEADER_SIZE + SLOTS_HEADER_SIZE
              + 2 * (read_n_slots(page) + read_fragmented_slots(page))
           <= read_next_empty_offset(page) + 1
        /\ read_next_empty_offset(page) + 1 <= page_size(page)

\* C10 PageFull: append_key fails exactly when the record, placed at
\* next_empty_offset - (key.len() + 10), would start below the end of the
\* directory grown by the new 2-byte slot.
C10_PageFull ==
    call.op = "append_key" =>
        ((call.status # "Ok") <=>
            (call.before.next_empty_offset - call.need
               < SLOTS_START
                 + 2 * (call.before.occupied_slots + call.before.fragmented_slots + 1)))

\* the entries iter() yielded before the call with e put in front of the
\* first of them whose key is at least e's (at the end when there is none)
WithTieBreak(es, e) ==
    LET hits == {i \in 1 .. Len(es) : KeyLeq(e.key, es[i].key)}
        at == IF hits = {} THEN Len(es) + 1 ELSE CHOOSE i \in hits : \A j \in hits : i <= j
    IN  SubSeq(es, 1, at - 1) \o <<e>> \o SubSeq(es, at, Len(es))

SameEntries(xs, es) ==
    /\ Len(xs) = Len(es)
    /\ \A i \in 1 .. Len(es) : SameEntry(xs[i], es[i])

\* C14 Tie-break on equal keys: a successful append_key puts the entry at the
\* smallest index whose key is not below the new key, so iter() yields it
\* before every entry of equal key that was already on the page, the other
\* entries keeping their order.
C14_TieBreak ==
    Appended => SameEntries(iter(page), WithTieBreak(call.entries, call.entry))

----------------------------------------------------------------------------
(* The header claims, under SpecFrame *)

MutationOps == {"write_header", "init_page", "append_key", "update_slots", "write_slots_header"}

\* C12 Dirty flag: after a mutation of the frame through write_header,
\* init_page, append_key, update_slots or write_slots_header the dirty flag
\* is set, and a frame whose flag is clear holds the bytes it was created with.
C12_DirtyFlag ==
    /\ call.op \in MutationOps => page.is_dirty
    /\ ~page.is_dirty => page.data = ZeroedPage(page.size).data

\* C19 Header round-trip: read_header after write_header(H) returns H field
\* for field; write_header sets the dirty flag and the frame's page_id, and
\* changes no byte from offset 25 on.
C19_HeaderRoundTrip ==
    [][call'.op = "write_header" =>
          /\ read_header(page') = call'.arg
          /\ page'.is_dirty
          /\ page'.page_id = call'.arg.page_id
          /\ DOMAIN page'.data = DOMAIN page.data
          /\ \A k \in DOMAIN page.data : k >= HEADER_SIZE => page'.data[k] = page.data[k]]_vars

\* a header with the magic number and the fields of test_read_write_header was
\* written over a frame whose slot header had been written before
C19_Witness ==
    /\ call.op = "write_header"
    /\ call.arg.magic_number = PAGE_MAGIC_NUMBER
    /\ call.arg.page_type = DataPage
    /\ call.arg.page_id = <<0, 0, 171, 52719>>
    /\ read_next_empty_offset(page) = 60154

\* C20 Slot-header round-trip: read_slots_header after write_slots_header
\* returns the three values written, and write_slots_header changes no byte
\* outside offsets 25..30.
C20_SlotHeaderRoundTrip ==
    [][call'.op = "write_slots_header" =>
          /\ read_slots_header(page') = call'.arg
          /\ DOMAIN page'.data = DOMAIN page.data
          /\ \A k \in DOMAIN page.data :
                (k < SLOTS_HEADER_START \/ k >= SLOTS_START) => page'.data[k] = page.data[k]]_vars

\* the slot header of read_write_slots_header was written on a frame that
\* holds a page header
C20_Witness ==
    /\ call.op = "write_slots_header"
    /\ call.arg = [occupied_slots |-> 64250, fragmented_slots |-> 44975,
                   next_empty_offset |-> 60154]
    /\ read_header(page).magic_number = PAGE_MAGIC_NUMBER
    /\ read_page_type(page) = DataPage

----------------------------------------------------------------------------
(* The disk manager's claim, under SpecAlloc *)

\* C15 Page placement: allocate_pages(n, file) succeeds and maps the i-th id
\* it returns to offset i * page_size of the file, so that the pages of one
\* call lie at pairwise different offsets.
C15_PagePlacement ==
    outcome.op = "allocate_pages" =>
        /\ outcome.status = "Ok"
        /\ \A id \in outcome.id .. (next_page_id - 1) :
              page_map[id].offset = (id - outcome.id) * PAGE_SIZE_BYTES
        /\ \A a, b \in outcome.id .. (next_page_id - 1) :
              a # b => page_map[a].offset # page_map[b].offset

----------------------------------------------------------------------------
(* The usage tracker's claim, under SpecTracker *)

TimeOf(q, id) == q[IndexOf(q, id)].time

\* the step is an insert, or a touch of a tracked id
Stamps == outcome'.op = "insert" \/ (outcome'.op = "touch" /\ outcome'.id \in Items(last_used))

\* C18 Usage-tracker ordering: an insert or touch stamps its id with the
\* current time and leaves the other ids as they were, an id is tracked at
\* most once, and peek returns the tracked id of the oldest stamp.
C18_TrackerOrdering ==
    [][outcome'.op \in {"insert", "touch"} =>
          /\ Stamps => (outcome'.id \in Items(last_used')
                          /\ TimeOf(last_used', outcome'.id) = now)
          /\ Items(last_used') = Items(last_used) \cup (IF Stamps THEN {outcome'.id} ELSE {})
          /\ \A id \in Items(last_used) \ {outcome'.id} :
                TimeOf(last_used', id) = TimeOf(last_used, id)
          /\ Len(last_used') = Cardinality(Items(last_used'))
          /\ last_used' # << >> =>
                \A id \in Items(last_used') :
                    TimeOf(last_used', peek(last_used')) <= TimeOf(last_used', id)]_vars

\* three tracked ids were stamped one after the other, the last by a touch,
\* and peek returns the first of the three
C18_Witness ==
    /\ outcome.op = "touch"
    /\ now = MaxTouches
    /\ Len(last_used) = 3
    /\ \E a, b, c \in Items(last_used) :
          /\ TimeOf(last_used, a) = now - 3
          /\ TimeOf(last_used, b) = now - 2
          /\ TimeOf(last_used, c) = now - 1
          /\ peek(last_used) = a

----------------------------------------------------------------------------
(* Further claims of the frame, under SpecFrame *)

\* C21 init_page(type, parent, frame) leaves the header {magic, the given
\* type, LSN 0, the given parent, the frame's page id}, the slot header
\* {0, 0, page_size - 1} and the dirty flag set, whatever the frame held, and
\* iter() on the result yields nothing.
C21_InitPage ==
    [][call'.op = "init_page" =>
          /\ read_header(page') = [magic_number |-> PAGE_MAGIC_NUMBER,
                                   page_type |-> call'.arg.page_type,
                                   log_sequence_number |-> <<0, 0>>,
                                   parent_page_id |-> call'.arg.parent_page_id,
                                   page_id |-> page.page_id]
          /\ page'.page_id = page.page_id
          /\ read_slots_header(page') = [occupied_slots |-> 0, fragmented_slots |-> 0,
                                         next_empty_offset |-> page.size - 1]
          /\ page'.is_dirty
          /\ iter(page') = << >>]_vars

\* a 1024-byte frame that carried the page id of an earlier header was
\* initialised as an IndexNode under parent 123
C21_Witness ==
    /\ call.op = "init_page"
    /\ page.size = 1024
    /\ page.page_id = <<0, 0, 171, 52719>>
    /\ call.arg.page_type = IndexNode
    /\ read_header(page).parent_page_id = U64(123)
    /\ read_next_empty_offset(page) = 1023

\* C22 Magic check: reading a frame as an index node fails when bytes 0..3
\* are not the magic number, and no entry is returned from such a frame.
C22_MagicCheck ==
    (call.op = "as_index_node" /\ read_header(page).magic_number # PAGE_MAGIC_NUMBER) =>
        /\ call.status # "Ok"
        /\ call.entries = NoEntries

----------------------------------------------------------------------------
(* Further claims of the slotted page, under SpecAppend and SpecFill *)

\* where the record of the last append was written
RecordOffset == call.before.next_empty_offset - call.need

\* the entries iter() yields from the slots that point at the record
ReadBack ==
    {iter(page)[i] : i \in {j \in 1 .. read_n_slots(page) :
                               get_entry_offset(page, j - 1) = RecordOffset}}

\* C23 Slot index of interior entries: on an IndexNode page the record's
\* slot-index field is written as 0 whatever the entry carries and the entry
\* reads back with no slot index; on an IndexLeaf page the slot index an
\* entry carries is the one read back.
C23_SlotIndex ==
    Appended =>
        /\ read_page_type(page) = IndexNode =>
              /\ read_u16(page.data, RecordOffset + 8) = 0
              /\ ReadBack # {}
              /\ \A e \in ReadBack : SameEntry(e, call.entry) /\ e.slot_index = NoSlot
        /\ (read_page_type(page) = IndexLeaf /\ call.entry.slot_index # NoSlot) =>
              /\ ReadBack # {}
              /\ \A e \in ReadBack : e.slot_index = call.entry.slot_index

\* the sequence es without its i-th element
Dropped(es, i) == SubSeq(es, 1, i - 1) \o SubSeq(es, i + 1, Len(es))

\* what iter() yields, each entry with the offset of the record it is read
\* from (two entries with equal fields are told apart by their records)
Directory(p) ==
    [i \in 1 .. read_n_slots(p) |-> [at |-> get_entry_offset(p, i - 1), entry |-> iter(p)[i]]]

\* C26 Frame of append_key: a successful append leaves the 25 header bytes,
\* the bytes of the records stored before (those above the old
\* next_empty_offset), the fragmented count and the fragmented offsets as they
\* were, and iter() yields the entries it yielded before, read from the same
\* records and in the same order, with one new entry among them.
C26_AppendFrame ==
    [][(call'.op = "append_key" /\ call'.status = "Ok") =>
          /\ \A k \in 0 .. (HEADER_SIZE - 1) : page'.data[k] = page.data[k]
          /\ \A k \in (read_next_empty_offset(page) + 1) .. (page.size - 1) :
                page'.data[k] = page.data[k]
          /\ read_fragmented_slots(page') = read_fragmented_slots(page)
          /\ get_fragmented_slots(page') = get_fragmented_slots(page)
          /\ \E i \in 1 .. read_n_slots(page') :
                Dropped(Directory(page'), i) = Directory(page)]_vars

----------------------------------------------------------------------------
(* Further claims of the buffer pool, under SpecPool and SpecLocks *)

Allocated == 0 .. (next_page_id - 1)

\* C24 Free pages are handed out once: in a pool with room for a frame,
\* next_free_page returns only ids that add_empty_pages allocated and that it
\* has not returned before, and it fails with NoFreePages exactly when every
\* allocated id has been handed out.
C24_HandedOutOnce ==
    [][(max_num_pages > 0 /\ outcome'.op = "next_free_page") =>
          /\ Succeeded(outcome') =>
                (outcome'.id \in Allocated /\ outcome'.id \notin handed_out)
          /\ (outcome'.status = "NoFreePages") <=> (handed_out = Allocated)]_vars

\* C25 No page aliasing: the ids mapped are 0 .. next_page_id - 1 and no two
\* of them are mapped to the same file and offset.
C25_NoAliasing ==
    /\ DOMAIN page_map = Allocated
    /\ \A a, b \in DOMAIN page_map : a # b => page_map[a] # page_map[b]

\* C27 No free page is lost on failure: in a pool with room for a frame, a
\* next_free_page that fails because every cached frame is pinned leaves
\* empty_pages as it was.
C27_FreePageKept ==
    [][(max_num_pages > 0 /\ outcome'.op = "next_free_page"
                          /\ outcome'.status = "AllPagesPinned") =>
          empty_pages' = empty_pages]_vars

\* C28 Eviction never blocks on a frame lock: a find_page or next_free_page
\* of a mapped id made while a client holds the lock of a frame ends with a
\* handle or with the all-pinned failure, and the frame it evicts is neither
\* locked nor referenced by a client.
C28_EvictionNeverBlocks ==
    [][(locked # {} /\ outcome'.op \in {"find_page", "next_free_page"}
                    /\ outcome'.id \in DOMAIN page_map) =>
          /\ outcome'.status \in {"Hit", "Loaded", "AllPagesPinned"}
          /\ outcome'.evicted # NoPage =>
                (outcome'.evicted \notin locked /\ handles[outcome'.evicted] = 0)]_vars

\* a miss evicted a frame and loaded the page while a client held the lock
\* of another frame
C28_Witness ==
    /\ outcome.op \in {"find_page", "next_free_page"}
    /\ outcome.status = "Loaded"
    /\ Evicted
    /\ locked # {}
    /\ outcome.id \notin locked

====
